---- MODULE Spec2Model ----
(***************************************************************************)
(* Model of the sales analytics engine of kash-flow-backend                *)
(* (src/app/analytics.py, get_analytics).                                  *)
(*                                                                         *)
(* Representation.                                                         *)
(*   money       integers in mills (1/1000 of a currency unit), so that    *)
(*               round(x, 2) is a real rounding step (to a multiple of 10) *)
(*   instants    integers in hours; a calendar day is instant \div 24 and  *)
(*               the "%Y-%m-%d" string of a date is represented by that    *)
(*               day number (strftime is injective and order preserving)   *)
(*   Optional    <<>> for None, <<v>> for a value                          *)
(*   timestamp   the raw value of a sale's "timestamp" field, abstracted   *)
(*               to the class of raw value (kind), its wall-clock reading  *)
(*               (wall), and its UTC offset when it carries one            *)
(***************************************************************************)
EXTENDS Integers, Sequences, FiniteSets, TLC

VARIABLES dbSales, dbProducts, days, now, pc, salesFailed, productsFailed,
          sales, products, result, calls, prev,
          role, override, subscription, requested, limits, response,
          timeClock, stock, reqs, workers

vars == <<dbSales, dbProducts, days, now, pc, salesFailed, productsFailed,
          sales, products, result, calls, prev,
          role, override, subscription, requested, limits, response,
          timeClock, stock, reqs, workers>>

(***************************************************************************)
(* Bounds of the model.                                                    *)
(***************************************************************************)
MaxSales == 2
MaxDays == 2
MaxBulk == 11
MaxCalls == 3
MaxWeek == 7
MaxReqs == 3

(***************************************************************************)
(* Program constants.                                                      *)
(***************************************************************************)
HoursPerDay == 24
TopN == 10
RestrictedMaxProducts == 10
RestrictedMaxUsers == 1
ProMaxUsers == 3
UnlimitedUsers == 999
DaysFloor == 1
DaysCeiling == 365
DefaultDays == 30

Hour(d, h) == d * HoursPerDay + h

(***************************************************************************)
(* Small helpers.                                                          *)
(***************************************************************************)
None == <<>>
Some(v) == <<v>>

\* sum(...) of a sequence, by halves to keep the evaluation shallow
RECURSIVE SumSeq(_)
SumSeq(s) ==
    IF s = <<>> THEN 0
    ELSE IF Len(s) = 1 THEN s[1]
    ELSE LET h == Len(s) \div 2
         IN  SumSeq(SubSeq(s, 1, h)) + SumSeq(SubSeq(s, h + 1, Len(s)))

Abs(x) == IF x < 0 THEN -x ELSE x

\* nearest integer to n / d for d > 0, ties to the even neighbour
RoundDiv(n, d) ==
    LET q == n \div d
        r == n % d
    IN  IF 2 * r < d THEN q
        ELSE IF 2 * r > d THEN q + 1
        ELSE IF q % 2 = 0 THEN q ELSE q + 1

\* round(x, 2) on a value in mills: the nearest multiple of 10 mills
Round2(x) == 10 * RoundDiv(x, 10)

(***************************************************************************)
(* Raw timestamps.                                                         *)
(*   kind  "missing"   key absent, None or ""                              *)
(*         "datetime"  a datetime object                                   *)
(*         "isoT"      "YYYY-MM-DDTHH:MM:SS" with optional Z / offset      *)
(*         "date"      "YYYY-MM-DD"                                        *)
(*         "isoSpace"  "YYYY-MM-DD HH:MM:SS"                               *)
(*         "text"      a date dateutil reads but fromisoformat does not,   *)
(*                     such as "Jan 10 2024 3:00 PM"                       *)
(*         "dateJunk"  an ISO date followed by text dateutil rejects,      *)
(*                     such as "2024-01-10 25:61:00"                       *)
(*         "garbage"   "invalid-date", or a value that is neither a string *)
(*                     nor a datetime                                      *)
(***************************************************************************)
TS(kind, wall, aware, off) ==
    [kind |-> kind, wall |-> wall, aware |-> aware, off |-> off]

NoTS(kind) == TS(kind, 0, FALSE, 0)

(***************************************************************************)
(* Timestamp handling of the daily loop (get_analytics, lines 117-144).    *)
(***************************************************************************)
\* the sale reaches line 137 with a datetime dt: the value is truthy, and is
\* a datetime or a string that dateutil's parser accepts
DailyParses(ts) == ts.kind \in {"datetime", "isoT", "date", "isoSpace", "text"}

\* naive values are taken as UTC, aware values are converted to UTC
ToUTC(ts) == IF ts.aware THEN ts.wall - ts.off ELSE ts.wall

\* dt.date().strftime("%Y-%m-%d")
DayOf(ts) == ToUTC(ts) \div HoursPerDay

(***************************************************************************)
(* Timestamp handling of the hourly loop (get_analytics, lines 247-272).   *)
(***************************************************************************)
\* the sale reaches line 269: fromisoformat accepts the string (the whole of
\* it when it holds a "T", else its first ten characters), or the value is a
\* datetime
HourlyParses(ts) ==
    ts.kind \in {"datetime", "isoT", "date", "isoSpace", "dateJunk"}

\* dt.hour of what the hourly loop parsed: the wall-clock hour as written,
\* and midnight when only the first ten characters were read
HourOf(ts) ==
    IF ts.kind \in {"datetime", "isoT"} THEN ts.wall % HoursPerDay ELSE 0

(***************************************************************************)
(* Cost resolution and totals (lines 100-114).                             *)
(***************************************************************************)
InCatalog(prods, pid) == pid \in DOMAIN prods

\* float(product.get("cost_price", 0) or 0) raises ValueError on a
\* non-numeric string
CostRaises(product) == product.cost_price.tag = "str"

\* float(product.get("cost_price", 0) or 0) when it returns
CostOf(product) ==
    IF product.cost_price.tag = "num" THEN product.cost_price.val ELSE 0

\* lines 105-111: what one sale adds to total_profit
SaleProfit(s, prods) ==
    IF InCatalog(prods, s.product_id)
    THEN s.total_price - CostOf(prods[s.product_id]) * s.quantity_sold
    ELSE 0

\* an exception leaves the loop of lines 104-111
ProfitRaises(ss, prods) ==
    \E i \in 1..Len(ss) :
        /\ InCatalog(prods, ss[i].product_id)
        /\ CostRaises(prods[ss[i].product_id])

TotalRevenue(ss) == SumSeq([i \in 1..Len(ss) |-> ss[i].total_price])

TotalProfit(ss, prods) == SumSeq([i \in 1..Len(ss) |-> SaleProfit(ss[i], prods)])

\* round(total_revenue / total_sales, 2)
AvgTransaction(ss) ==
    IF Len(ss) > 0 THEN 10 * RoundDiv(TotalRevenue(ss), 10 * Len(ss)) ELSE 0

\* round(total_profit / total_revenue * 100, 1), in tenths of a percent
ProfitMargin(ss, prods) ==
    IF TotalRevenue(ss) > 0
    THEN RoundDiv(TotalProfit(ss, prods) * 1000, TotalRevenue(ss))
    ELSE 0

(***************************************************************************)
(* daily_data (lines 116-164): the keys in insertion order and the         *)
(* accumulated entry of each key.                                          *)
(***************************************************************************)
SeqHas(seq, x) == \E i \in 1..Len(seq) : seq[i] = x

RECURSIVE DailyKeysFrom(_, _)
DailyKeysFrom(ss, acc) ==
    IF ss = <<>> THEN acc
    ELSE LET ts == Head(ss).timestamp
         IN  IF DailyParses(ts) /\ ~SeqHas(acc, DayOf(ts))
             THEN DailyKeysFrom(Tail(ss), Append(acc, DayOf(ts)))
             ELSE DailyKeysFrom(Tail(ss), acc)

\* the day bucket taken from the wall-clock date, without the UTC conversion
InDayLocal(s, d) ==
    DailyParses(s.timestamp) /\ s.timestamp.wall \div HoursPerDay = d

InDay(s, d) == DailyParses(s.timestamp) /\ DayOf(s.timestamp) = d

\* lines 153-159: the profit one sale adds to its day; an exception raised
\* there is caught at line 160 after revenue and count were added
DailyProfit(s, prods) ==
    IF InCatalog(prods, s.product_id) /\ ~CostRaises(prods[s.product_id])
    THEN s.total_price - CostOf(prods[s.product_id]) * s.quantity_sold
    ELSE 0

DailyEntry(ss, prods, d) ==
    [revenue |-> SumSeq([i \in 1..Len(ss) |->
                    IF InDay(ss[i], d) THEN ss[i].total_price ELSE 0]),
     profit  |-> SumSeq([i \in 1..Len(ss) |->
                    IF InDay(ss[i], d) THEN DailyProfit(ss[i], prods) ELSE 0]),
     count   |-> SumSeq([i \in 1..Len(ss) |->
                    IF InDay(ss[i], d) THEN 1 ELSE 0])]

DailyData(ss, prods) ==
    LET keys == DailyKeysFrom(ss, <<>>)
    IN  [keys |-> keys,
         data |-> [d \in {keys[i] : i \in 1..Len(keys)} |-> DailyEntry(ss, prods, d)]]

(***************************************************************************)
(* sales_trends (lines 166-202).                                           *)
(***************************************************************************)
\* a window that counts the end date among its days
StartDateShort(nw, dys) == nw - (dys - 1) * HoursPerDay

\* end_date = datetime.now(timezone.utc); start_date = end_date - days
StartDate(nw, dys) == nw - dys * HoursPerDay

\* the date read in a time zone ten hours ahead of UTC
DateOnlyAhead(instant) == (instant + 10) \div HoursPerDay

DateOnly(instant) == instant \div HoursPerDay

TrendEntry(daily, d) ==
    IF SeqHas(daily.keys, d)
    THEN [date |-> d,
          revenue |-> Round2(daily.data[d].revenue),
          profit |-> Round2(daily.data[d].profit),
          sales_count |-> daily.data[d].count]
    ELSE [date |-> d, revenue |-> 0, profit |-> 0, sales_count |-> 0]

\* the loop with the end date left out
TrendLoopExclusive(current_date, end_date_only, daily) ==
    IF current_date < end_date_only
    THEN [i \in 1..(end_date_only - current_date) |->
            TrendEntry(daily, current_date + i - 1)]
    ELSE <<>>

\* the while loop of lines 183-202: its i-th pass appends the entry of the
\* day current_date + (i - 1), and it runs while that day <= end_date_only
TrendLoop(current_date, end_date_only, daily) ==
    IF current_date <= end_date_only
    THEN [i \in 1..(end_date_only - current_date + 1) |->
            TrendEntry(daily, current_date + i - 1)]
    ELSE <<>>

SalesTrends(daily, nw, dys) ==
    TrendLoop(DateOnly(StartDate(nw, dys)), DateOnly(nw), daily)

(***************************************************************************)
(* best_day, worst_day, revenue_trend (lines 204-214).                     *)
(***************************************************************************)
\* max(daily_data.items()) without its key: the latest day
BestDayByDate(daily) ==
    IF daily.keys = <<>> THEN [day |-> None, revenue |-> 0]
    ELSE LET n == Len(daily.keys)
             m == CHOOSE i \in 1..n : \A j \in 1..n : daily.keys[j] <= daily.keys[i]
         IN  [day |-> Some(daily.keys[m]),
              revenue |-> Round2(daily.data[daily.keys[m]].revenue)]

\* max(daily_data.items(), key=revenue): the first key of maximal revenue
BestDay(daily) ==
    IF daily.keys = <<>> THEN [day |-> None, revenue |-> 0]
    ELSE LET n == Len(daily.keys)
             rev(i) == daily.data[daily.keys[i]].revenue
             m == CHOOSE i \in 1..n :
                    /\ \A j \in 1..n : rev(j) <= rev(i)
                    /\ \A j \in 1..(i - 1) : rev(j) < rev(i)
         IN  [day |-> Some(daily.keys[m]), revenue |-> Round2(rev(m))]

\* min(daily_data.items(), key=revenue): the first key of minimal revenue
WorstDay(daily) ==
    IF daily.keys = <<>> THEN [day |-> None, revenue |-> 0]
    ELSE LET n == Len(daily.keys)
             rev(i) == daily.data[daily.keys[i]].revenue
             m == CHOOSE i \in 1..n :
                    /\ \A j \in 1..n : rev(j) >= rev(i)
                    /\ \A j \in 1..(i - 1) : rev(j) > rev(i)
         IN  [day |-> Some(daily.keys[m]), revenue |-> Round2(rev(m))]

\* the split one entry later when the length is odd
RevenueTrendLateSplit(trends) ==
    IF Len(trends) >= 2
    THEN LET h  == (Len(trends) + 1) \div 2
             n1 == h
             n2 == Len(trends) - h
             s1 == SumSeq([i \in 1..n1 |-> trends[i].revenue])
             s2 == SumSeq([i \in 1..n2 |-> trends[h + i].revenue])
         IN  IF s1 > 0
             THEN RoundDiv((s2 * n1 - s1 * n2) * 1000, s1 * n2)
             ELSE 0
    ELSE 0

\* round(revenue_trend, 1), in tenths of a percent
RevenueTrend(trends) ==
    IF Len(trends) >= 2
    THEN LET h  == Len(trends) \div 2
             n1 == h
             n2 == Len(trends) - h
             s1 == SumSeq([i \in 1..n1 |-> trends[i].revenue])
             s2 == SumSeq([i \in 1..n2 |-> trends[h + i].revenue])
         IN  IF s1 > 0
             THEN RoundDiv((s2 * n1 - s1 * n2) * 1000, s1 * n2)
             ELSE 0
    ELSE 0

(***************************************************************************)
(* product_stats and top_products (lines 216-244).                         *)
(***************************************************************************)
\* the keys of product_stats in insertion order
RECURSIVE StatKeysFrom(_, _)
StatKeysFrom(ss, acc) ==
    IF ss = <<>> THEN acc
    ELSE IF SeqHas(acc, Head(ss).product_id)
         THEN StatKeysFrom(Tail(ss), acc)
         ELSE StatKeysFrom(Tail(ss), Append(acc, Head(ss).product_id))

\* lines 227-231: the profit one sale adds to its product's entry
StatProfit(s, prods) ==
    IF InCatalog(prods, s.product_id)
    THEN (prods[s.product_id].price - CostOf(prods[s.product_id])) * s.quantity_sold
    ELSE 0

\* the entry with returns left out of the units sold
StatEntrySalesOnly(ss, prods, pid) ==
    [pid     |-> pid,
     sold    |-> SumSeq([i \in 1..Len(ss) |->
                    IF ss[i].product_id = pid /\ ss[i].quantity_sold > 0
                    THEN ss[i].quantity_sold ELSE 0]),
     revenue |-> SumSeq([i \in 1..Len(ss) |->
                    IF ss[i].product_id = pid THEN ss[i].total_price ELSE 0]),
     profit  |-> SumSeq([i \in 1..Len(ss) |->
                    IF ss[i].product_id = pid THEN StatProfit(ss[i], prods) ELSE 0])]

StatEntry(ss, prods, pid) ==
    [pid     |-> pid,
     sold    |-> SumSeq([i \in 1..Len(ss) |->
                    IF ss[i].product_id = pid THEN ss[i].quantity_sold ELSE 0]),
     revenue |-> SumSeq([i \in 1..Len(ss) |->
                    IF ss[i].product_id = pid THEN ss[i].total_price ELSE 0]),
     profit  |-> SumSeq([i \in 1..Len(ss) |->
                    IF ss[i].product_id = pid THEN StatProfit(ss[i], prods) ELSE 0])]

\* product_stats.items(), in insertion order
ProductStats(ss, prods) ==
    LET keys == StatKeysFrom(ss, <<>>)
    IN  [i \in 1..Len(keys) |-> StatEntry(ss, prods, keys[i])]

\* one step of a stable descending sort: x goes behind every entry whose
\* revenue is at least its own
InsertByRevenue(srt, x) ==
    LET k == Cardinality({i \in 1..Len(srt) : srt[i].revenue >= x.revenue})
    IN  SubSeq(srt, 1, k) \o <<x>> \o SubSeq(srt, k + 1, Len(srt))

\* sorted(items, key=revenue, reverse=True): stable, descending
RECURSIVE SortByRevenue(_)
SortByRevenue(items) ==
    IF items = <<>> THEN <<>>
    ELSE InsertByRevenue(SortByRevenue(SubSeq(items, 1, Len(items) - 1)),
                         items[Len(items)])

\* [:10]
Take(seq, n) == SubSeq(seq, 1, IF Len(seq) < n THEN Len(seq) ELSE n)

\* the ranking without the sort
unsorted_products(stats) == Take(stats, TopN)

sorted_products(stats) == Take(SortByRevenue(stats), TopN)

\* lines 235-244
TopProductOf(st, prods) ==
    [product_id    |-> st.pid,
     name          |-> IF InCatalog(prods, st.pid)
                       THEN prods[st.pid].name ELSE "Product #",
     sku           |-> IF InCatalog(prods, st.pid)
                       THEN Some(prods[st.pid].sku) ELSE None,
     total_sold    |-> st.sold,
     total_revenue |-> Round2(st.revenue),
     total_profit  |-> Round2(st.profit)]

TopProducts(ss, prods) ==
    LET srt == sorted_products(ProductStats(ss, prods))
    IN  [i \in 1..Len(srt) |-> TopProductOf(srt[i], prods)]

(***************************************************************************)
(* hourly_breakdown (lines 246-281).                                       *)
(***************************************************************************)
InHour(s, h) == HourlyParses(s.timestamp) /\ HourOf(s.timestamp) = h

HourlyEntry(ss, h) ==
    [hour        |-> h,
     sales_count |-> SumSeq([i \in 1..Len(ss) |->
                        IF InHour(ss[i], h) THEN 1 ELSE 0]),
     revenue     |-> Round2(SumSeq([i \in 1..Len(ss) |->
                        IF InHour(ss[i], h) THEN ss[i].total_price ELSE 0]))]

\* the hours counted from 1
HourlyBreakdownFromOne(ss) == [i \in 1..HoursPerDay |-> HourlyEntry(ss, i)]

\* one entry per key of hourly_data, range(24), sorted by hour
HourlyBreakdown(ss) == [i \in 1..HoursPerDay |-> HourlyEntry(ss, i - 1)]

(***************************************************************************)
(* The summary (lines 90-98 and 283-298).                                  *)
(***************************************************************************)
\* the early return with total_sales given the period
EmptySummaryCountingDays(dys) ==
    [kind |-> "summary",
     period_days |-> dys,
     total_revenue |-> 0,
     total_profit |-> 0,
     total_sales |-> dys,
     avg_transaction_value |-> 0,
     profit_margin |-> 0,
     best_day |-> None,
     best_day_revenue |-> 0,
     worst_day |-> None,
     worst_day_revenue |-> 0,
     revenue_trend |-> 0,
     sales_trends |-> <<>>,
     top_products |-> <<>>,
     hourly_breakdown |-> <<>>]

\* the early return of lines 90-98; the three sequences take the defaults
\* of the AnalyticsSummary model
EmptySummary(dys) ==
    [kind |-> "summary",
     period_days |-> dys,
     total_revenue |-> 0,
     total_profit |-> 0,
     total_sales |-> 0,
     avg_transaction_value |-> 0,
     profit_margin |-> 0,
     best_day |-> None,
     best_day_revenue |-> 0,
     worst_day |-> None,
     worst_day_revenue |-> 0,
     revenue_trend |-> 0,
     sales_trends |-> <<>>,
     top_products |-> <<>>,
     hourly_breakdown |-> <<>>]

FullSummary(ss, prods, nw, dys) ==
    LET daily  == DailyData(ss, prods)
        trends == SalesTrends(daily, nw, dys)
        best   == BestDay(daily)
        worst  == WorstDay(daily)
    IN  [kind |-> "summary",
         period_days |-> dys,
         total_revenue |-> Round2(TotalRevenue(ss)),
         total_profit |-> Round2(TotalProfit(ss, prods)),
         total_sales |-> Len(ss),
         avg_transaction_value |-> AvgTransaction(ss),
         profit_margin |-> ProfitMargin(ss, prods),
         best_day |-> best.day,
         best_day_revenue |-> best.revenue,
         worst_day |-> worst.day,
         worst_day_revenue |-> worst.revenue,
         revenue_trend |-> RevenueTrend(trends),
         sales_trends |-> trends,
         top_products |-> TopProducts(ss, prods),
         hourly_breakdown |-> HourlyBreakdown(ss)]

\* the exception that leaves get_analytics
Raised == [kind |-> "raised", error |-> "ValueError"]

\* the early return taken only after the daily and hourly work
AnalyseLateReturn(ss, prods, nw, dys) ==
    IF ss = <<>>
    THEN [EmptySummary(dys) EXCEPT
            !.sales_trends = SalesTrends(DailyData(ss, prods), nw, dys),
            !.hourly_breakdown = HourlyBreakdown(ss)]
    ELSE IF ProfitRaises(ss, prods) THEN Raised
    ELSE FullSummary(ss, prods, nw, dys)

\* get_analytics after the two fetches: the value returned, or Raised
Analyse(ss, prods, nw, dys) ==
    IF ss = <<>> THEN EmptySummary(dys)
    ELSE IF ProfitRaises(ss, prods) THEN Raised
    ELSE FullSummary(ss, prods, nw, dys)

(***************************************************************************)
(* The two fetches (lines 68-88): an exception of the client is caught and *)
(* leaves an empty batch.                                                  *)
(***************************************************************************)
\* the sales fetch with its failure ignored
FetchSalesUnguarded(rows, failed) == rows

FetchSales(rows, failed) == IF failed THEN <<>> ELSE rows

NoProducts == [pid \in {} |-> 0]

FetchProducts(catalog, failed) == IF failed THEN NoProducts ELSE catalog

(***************************************************************************)
(* Inputs: the rows the data store holds.                                  *)
(***************************************************************************)
Sale(pid, qty, price, ts) ==
    [product_id |-> pid, quantity_sold |-> qty, total_price |-> price,
     timestamp |-> ts]

tsNoon     == TS("isoT", Hour(10, 10), TRUE, 0)
tsOffset   == TS("isoT", Hour(9, 22), TRUE, -5)
tsFar      == TS("isoT", Hour(20, 10), TRUE, 0)
tsDate     == TS("date", Hour(8, 0), FALSE, 0)
tsSpace    == TS("isoSpace", Hour(10, 15), FALSE, 0)
tsText     == TS("text", Hour(9, 15), FALSE, 0)
tsJunk     == TS("dateJunk", Hour(10, 0), FALSE, 0)
tsObject   == TS("datetime", Hour(10, 1), TRUE, 2)

Timestamps ==
    {tsNoon, tsOffset, tsFar, tsDate, tsSpace, tsText, tsJunk, tsObject,
     NoTS("garbage")}

\* product 1 and 2 are in the catalog, product 3 was deleted from it
SaleSamples ==
    {Sale(1, 5, 5000, ts) : ts \in Timestamps}
        \cup {Sale(1, -2, -2000, tsNoon)}
        \cup {Sale(1, 1, 800, tsNoon)}
        \cup {Sale(2, 1, 4, tsNoon), Sale(2, 1, 4, tsDate)}
        \cup {Sale(3, 1, 500, NoTS("missing"))}

Num(v) == [tag |-> "num", val |-> v]
NoNum(tag) == [tag |-> tag, val |-> 0]

\* cost_price of a product row: a number, null, absent, or a non-numeric string
Costs == {Num(2), NoNum("null"), NoNum("absent"), NoNum("str")}

Product(name, price, cost) ==
    [name |-> name, sku |-> name, price |-> price, cost_price |-> cost]

Catalog(cost2) ==
    (1 :> Product("P1", 1000, Num(300))) @@ (2 :> Product("P2", 8, cost2))

Catalogs == {Catalog(c) : c \in Costs}

Batches(samples, n) == UNION {[1..k -> samples] : k \in 0..n}

NowSet == {Hour(10, 13)}

NotCalled == [kind |-> "none"]

apiVars == <<role, override, subscription, requested, limits, response>>

reqVars == <<timeClock, stock, reqs, workers>>

\* no request of the other endpoints is under way
NoRequests ==
    /\ timeClock = <<>>
    /\ stock = <<>>
    /\ reqs = <<>>
    /\ workers = 0

\* get_analytics called on its own, as its tests call it
DirectCall ==
    /\ role = "admin"
    /\ override = ""
    /\ subscription = NotCalled
    /\ requested = days
    /\ limits = NotCalled
    /\ response = NotCalled

Init ==
    /\ dbSales \in Batches(SaleSamples, MaxSales)
    /\ dbProducts \in Catalogs
    /\ days \in 1..MaxDays
    /\ now \in NowSet
    /\ pc = "ready"
    /\ salesFailed = FALSE
    /\ productsFailed = FALSE
    /\ sales = <<>>
    /\ products = NoProducts
    /\ result = NotCalled
    /\ calls = 0
    /\ prev = NotCalled
    /\ DirectCall
    /\ NoRequests

(***************************************************************************)
(* get_analytics(store_id, days), lines 52-298.                            *)
(***************************************************************************)
get_analytics ==
    /\ pc = "ready"
    /\ \E sf \in BOOLEAN, pf \in BOOLEAN :
        /\ salesFailed' = sf
        /\ productsFailed' = pf
        /\ sales' = FetchSales(dbSales, sf)
        /\ products' = FetchProducts(dbProducts, pf)
        /\ result' = Analyse(FetchSales(dbSales, sf),
                             FetchProducts(dbProducts, pf), now, days)
    /\ pc' = "done"
    /\ calls' = calls + 1
    /\ UNCHANGED <<dbSales, dbProducts, days, now, prev>>
    /\ UNCHANGED apiVars
    /\ UNCHANGED reqVars

Next == get_analytics

Spec == Init /\ [][Next]_vars

(***************************************************************************)
(* A second family of inputs, for the product ranking: a run of sales of   *)
(* up to MaxBulk further products (none of them in the catalog), with a    *)
(* few free sales before or after it.                                      *)
(***************************************************************************)
BulkRevenue(i) == (((i * 7) % 5) + 1) * 100

Bulk(k) == [i \in 1..k |-> Sale(100 + i, 1, BulkRevenue(i), tsNoon)]

RankSamples ==
    {Sale(1, 5, 5000, tsNoon),
     Sale(2, 1, 4, tsNoon),
     Sale(103, 2, 250, NoTS("garbage")),
     Sale(105, -1, -100, tsNoon),
     Sale(200, 1, 300, tsFar)}

InitRank ==
    /\ \E k \in 0..MaxBulk, free \in Batches(RankSamples, MaxSales) :
            dbSales \in {free \o Bulk(k), Bulk(k) \o free}
    /\ dbProducts = Catalog(Num(2))
    /\ days \in 1..MaxDays
    /\ now \in NowSet
    /\ pc = "ready"
    /\ salesFailed = FALSE
    /\ productsFailed = FALSE
    /\ sales = <<>>
    /\ products = NoProducts
    /\ result = NotCalled
    /\ calls = 0
    /\ prev = NotCalled
    /\ DirectCall
    /\ NoRequests

SpecRank == InitRank /\ [][Next]_vars

(***************************************************************************)
(* Subscription plans (src/app/subscriptions.py).                          *)
(*                                                                         *)
(* trial_end is the raw value of the subscription's "trial_end" field,     *)
(* abstracted to its class (kind) and, for a string that fromisoformat     *)
(* reads, the instant it denotes (at):                                     *)
(*   "none"    None, or the field is absent                                *)
(*   "empty"   the empty string                                            *)
(*   "aware"   an ISO string with "Z" or a UTC offset                      *)
(*   "naive"   an ISO string without offset                                *)
(*   "text"    a string fromisoformat rejects                              *)
(*   "notstr"  a value that is not a string                                *)
(***************************************************************************)
TrialEnd(kind, at) == [kind |-> kind, at |-> at]

NoTrialEnd == TrialEnd("none", 0)

\* PlanLimits._check_trial_active: the comparison of the aware clock with a
\* naive value raises TypeError, which is caught like a parse error
check_trial_active(status, trial_end, nw) ==
    IF status # "trialing" THEN FALSE
    ELSE IF trial_end.kind \in {"none", "empty"} THEN TRUE
    ELSE IF trial_end.kind = "aware" THEN nw < trial_end.at
    ELSE FALSE

\* PlanLimits.__init__
PlanLimits(plan, status, trial_end, nw) ==
    [kind |-> "limits", plan |-> plan, status |-> status,
     trial_end |-> trial_end,
     is_trial_active |-> check_trial_active(status, trial_end, nw)]

\* a trial counted as active whatever its end
is_active_any_trial(l) == l.status \in {"active", "trialing"}

is_active(l) ==
    IF l.status = "active" THEN TRUE
    ELSE IF l.status = "trialing" /\ l.is_trial_active THEN TRUE
    ELSE FALSE

max_products(l) == IF ~is_active(l) THEN Some(RestrictedMaxProducts) ELSE None

max_users(l) ==
    IF ~is_active(l) THEN RestrictedMaxUsers
    ELSE IF l.plan = "pro" THEN ProMaxUsers
    ELSE UnlimitedUsers

allow_multiple_users(l) == is_active(l) /\ l.plan = "business"
allow_csv_export(l) == is_active(l) /\ l.plan \in {"pro", "business"}
allow_low_stock_alerts(l) == is_active(l) /\ l.plan \in {"pro", "business"}
allow_audit_logs(l) == is_active(l) /\ l.plan = "business"
allow_advanced_reports(l) == is_active(l) /\ l.plan \in {"pro", "business"}

(***************************************************************************)
(* get_store_plan (subscriptions.py, lines 73-87).  lookup is the outcome  *)
(* of the subscriptions query: a row, no data, an exception of the query,  *)
(* or no client at all (get_supabase_client raises, outside the try).      *)
(***************************************************************************)
Row(plan, status, trial_end) ==
    [kind |-> "row", plan |-> plan, status |-> status, trial_end |-> trial_end]

NoRow(kind) == [kind |-> kind, plan |-> "", status |-> "", trial_end |-> NoTrialEnd]

PlanRaised == [kind |-> "raised", error |-> "RuntimeError"]

\* the failed lookup answered with the plan of a paying store
StorePlanFailOpen(ovr, lookup, nw) ==
    IF ovr \in {"pro", "business"} THEN PlanLimits(ovr, "active", NoTrialEnd, nw)
    ELSE IF lookup.kind = "noClient" THEN PlanRaised
    ELSE IF lookup.kind = "row"
         THEN PlanLimits(lookup.plan, lookup.status, lookup.trial_end, nw)
    ELSE IF lookup.kind = "empty"
         THEN PlanLimits("expired", "expired", NoTrialEnd, nw)
    ELSE PlanLimits("pro", "active", NoTrialEnd, nw)

StorePlan(ovr, lookup, nw) ==
    IF ovr \in {"pro", "business"} THEN PlanLimits(ovr, "active", NoTrialEnd, nw)
    ELSE IF lookup.kind = "noClient" THEN PlanRaised
    ELSE IF lookup.kind = "row"
         THEN PlanLimits(lookup.plan, lookup.status, lookup.trial_end, nw)
    ELSE PlanLimits("expired", "expired", NoTrialEnd, nw)

(***************************************************************************)
(* The /analytics endpoint (src/app/main.py, get_store_analytics) and the  *)
(* plan of the store it consults.                                          *)
(***************************************************************************)
Http(status) == [kind |-> "http", status |-> status]

\* the clamp without its upper end
ClampDaysFloorOnly(d) == IF d < DaysFloor THEN DaysFloor ELSE d

\* main.py, lines 1883-1886
ClampDays(d) ==
    IF d < DaysFloor THEN DaysFloor
    ELSE IF d > DaysCeiling THEN DaysCeiling
    ELSE d

Plans == {"free", "pro", "business", "expired"}

Statuses == {"active", "trialing", "expired", "past_due", "canceled"}

TrialEnds(nw) ==
    {NoTrialEnd, TrialEnd("empty", 0), TrialEnd("text", 0), TrialEnd("notstr", 0),
     TrialEnd("naive", nw + HoursPerDay),
     TrialEnd("aware", nw - HoursPerDay), TrialEnd("aware", nw),
     TrialEnd("aware", nw + HoursPerDay)}

\* the outcomes of the subscriptions query; trial_end is varied on the rows
\* whose status reads it
Lookups(nw) ==
    {Row(p, st, NoTrialEnd) : p \in Plans, st \in Statuses}
        \cup {Row(p, "trialing", te) : p \in Plans, te \in TrialEnds(nw)}
        \cup {NoRow("empty"), NoRow("raises"), NoRow("noClient")}

Overrides == {"", "pro", "business", "free"}

Roles == {"admin", "cashier"}

RequestedDays == {-1, 0, 1, DefaultDays, 365, 366}

ApiBatches == {<<>>, <<Sale(1, 5, 5000, tsNoon)>>}

InitApi ==
    /\ dbSales \in ApiBatches
    /\ dbProducts = Catalog(Num(2))
    /\ days = DefaultDays
    /\ now \in NowSet
    /\ pc = "ready"
    /\ salesFailed = FALSE
    /\ productsFailed = FALSE
    /\ sales = <<>>
    /\ products = NoProducts
    /\ result = NotCalled
    /\ calls = 0
    /\ prev = NotCalled
    /\ role \in Roles
    /\ override \in Overrides
    /\ subscription \in Lookups(now)
    /\ requested \in RequestedDays
    /\ limits = NotCalled
    /\ response = NotCalled
    /\ NoRequests

\* PlanLimits(plan, status=..., trial_end=...) built from a row
new_PlanLimits ==
    /\ pc = "ready"
    /\ subscription.kind = "row"
    /\ limits' = PlanLimits(subscription.plan, subscription.status,
                            subscription.trial_end, now)
    /\ pc' = "done"
    /\ UNCHANGED <<dbSales, dbProducts, days, now, salesFailed, productsFailed,
                   sales, products, result, calls, prev,
                   role, override, subscription, requested, response>>
    /\ UNCHANGED reqVars

\* get_store_plan(store_id), subscriptions.py lines 73-87
get_store_plan ==
    /\ pc = "ready"
    /\ limits' = StorePlan(override, subscription, now)
    /\ pc' = "done"
    /\ UNCHANGED <<dbSales, dbProducts, days, now, salesFailed, productsFailed,
                   sales, products, result, calls, prev,
                   role, override, subscription, requested, response>>
    /\ UNCHANGED reqVars

\* GET /analytics, main.py lines 1874-1888
get_store_analytics ==
    /\ pc = "ready"
    /\ pc' = "done"
    /\ UNCHANGED <<dbSales, dbProducts, now, prev,
                   role, override, subscription, requested>>
    /\ UNCHANGED reqVars
    /\ IF role # "admin"
       THEN /\ response' = Http(403)
            /\ UNCHANGED <<limits, days, salesFailed, productsFailed,
                           sales, products, result, calls>>
       ELSE LET l == StorePlan(override, subscription, now)
            IN  /\ limits' = l
                /\ IF l.kind = "raised"
                   THEN /\ response' = Http(500)
                        /\ UNCHANGED <<days, salesFailed, productsFailed,
                                       sales, products, result, calls>>
                   ELSE IF ~allow_advanced_reports(l)
                   THEN /\ response' = Http(402)
                        /\ UNCHANGED <<days, salesFailed, productsFailed,
                                       sales, products, result, calls>>
                   ELSE \E sf \in BOOLEAN, pf \in BOOLEAN :
                        /\ days' = ClampDays(requested)
                        /\ salesFailed' = sf
                        /\ productsFailed' = pf
                        /\ sales' = FetchSales(dbSales, sf)
                        /\ products' = FetchProducts(dbProducts, pf)
                        /\ result' = Analyse(FetchSales(dbSales, sf),
                                             FetchProducts(dbProducts, pf),
                                             now, ClampDays(requested))
                        /\ calls' = calls + 1
                        /\ response' =
                              IF Analyse(FetchSales(dbSales, sf),
                                         FetchProducts(dbProducts, pf),
                                         now, ClampDays(requested)).kind = "summary"
                              THEN Http(200) ELSE Http(500)

NextApi == new_PlanLimits \/ get_store_plan \/ get_store_analytics

SpecApi == InitApi /\ [][NextApi]_vars

(***************************************************************************)
(* A third family: get_analytics called several times, as the /analytics   *)
(* endpoint does once per request.  Between two calls the clock moves on,  *)
(* the caller may ask for another period and a sale may have been          *)
(* recorded; prev keeps the inputs and the value of one earlier call.      *)
(***************************************************************************)
RepeatSamples == {Sale(1, 5, 5000, tsNoon), Sale(2, 1, 4, tsDate)}

\* hours that pass between two calls
ClockSteps == {1, 12}

CallRecord ==
    [kind |-> "call", at |-> calls, sales |-> sales, products |-> products,
     days |-> days, now |-> now, result |-> result]

\* the next request arrives: the locals of the finished call are gone
next_call ==
    /\ pc = "done"
    /\ calls < MaxCalls
    /\ prev' \in {prev, CallRecord}
    /\ \E step \in ClockSteps : now' = now + step
    /\ days' \in 1..MaxDays
    /\ dbSales' \in {dbSales} \cup
            {Append(dbSales, s) : s \in IF Len(dbSales) < MaxSales
                                        THEN RepeatSamples ELSE {}}
    /\ pc' = "ready"
    /\ salesFailed' = FALSE
    /\ productsFailed' = FALSE
    /\ sales' = <<>>
    /\ products' = NoProducts
    /\ result' = NotCalled
    /\ UNCHANGED <<dbProducts, calls>>
    /\ UNCHANGED apiVars
    /\ UNCHANGED reqVars

InitRepeat ==
    /\ dbSales \in Batches(RepeatSamples, MaxSales)
    /\ dbProducts = Catalog(Num(2))
    /\ days \in 1..MaxDays
    /\ now \in NowSet
    /\ pc = "ready"
    /\ salesFailed = FALSE
    /\ productsFailed = FALSE
    /\ sales = <<>>
    /\ products = NoProducts
    /\ result = NotCalled
    /\ calls = 0
    /\ prev = NotCalled
    /\ DirectCall
    /\ NoRequests

NextRepeat == get_analytics \/ next_call

SpecRepeat == InitRepeat /\ [][NextRepeat]_vars

(***************************************************************************)
(* A fourth family, for the trend percentage: periods of up to MaxWeek     *)
(* days with at most one sale a day, the first k days of the window at one *)
(* revenue level and the following days at another (0 for a day without a  *)
(* sale, a negative level for a return).                                   *)
(***************************************************************************)
Levels == {0, 1000, 10000, -1000}

LevelSale(d, amount) ==
    Sale(1, IF amount < 0 THEN -1 ELSE 1, amount, TS("isoT", Hour(d, 10), TRUE, 0))

StepBatch(lo, hi, k, nw, dys) ==
    LET first == DateOnly(StartDate(nw, dys))
        all   == [i \in 1..(dys + 1) |->
                    LevelSale(first + i - 1, IF i <= k THEN lo ELSE hi)]
    IN  SelectSeq(all, LAMBDA s : s.total_price # 0)

InitTrend ==
    /\ days \in 1..MaxWeek
    /\ now \in NowSet
    /\ \E lo \in Levels, hi \in Levels, k \in 0..(days + 1) :
            dbSales = StepBatch(lo, hi, k, now, days)
    /\ dbProducts = Catalog(Num(2))
    /\ pc = "ready"
    /\ salesFailed = FALSE
    /\ productsFailed = FALSE
    /\ sales = <<>>
    /\ products = NoProducts
    /\ result = NotCalled
    /\ calls = 0
    /\ prev = NotCalled
    /\ DirectCall
    /\ NoRequests

SpecTrend == InitTrend /\ [][Next]_vars

(***************************************************************************)
(* Requests of the other endpoints of src/app/main.py.  Each handler runs  *)
(* in a worker thread and talks to the data store one query at a time, so  *)
(* a handler is a sequence of steps, one per query; reqs[r] is request r   *)
(* with the handler it runs (op), its position (pc), what its first query  *)
(* read (seen) and its answer (response).  At most `workers` requests are  *)
(* under way at a time.                                                    *)
(***************************************************************************)
analyticsVars ==
    <<dbSales, dbProducts, days, now, pc, salesFailed, productsFailed,
      sales, products, result, calls, prev>>

Idle == [op |-> "idle", pc |-> "idle", user |-> "", arg |-> 0, seen |-> 0,
         response |-> NotCalled]

Step(op, at, user, arg, seen) ==
    [op |-> op, pc |-> at, user |-> user, arg |-> arg, seen |-> seen,
     response |-> NotCalled]

Answer(req, status) == [req EXCEPT !.pc = "done", !.response = Http(status)]

InFlight == {r \in DOMAIN reqs : reqs[r].pc \notin {"idle", "done"}}

\* a worker is free for request r, the next one to arrive
CanStart(r) ==
    /\ reqs[r].pc = "idle"
    /\ r > 1 => reqs[r - 1].pc # "idle"
    /\ Cardinality(InFlight) < workers

At(r, op, at) == reqs[r].op = op /\ reqs[r].pc = at

Users == {"u1", "u2"}

(***************************************************************************)
(* The time clock (main.py, clock_in lines 2549-2575, clock_out lines      *)
(* 2578-2615).  An entry of the time_clock table is [user, clock_out],     *)
(* its id is its index; the answer of .single() to no row is data = None,  *)
(* as the tests of the repository have it, and to several rows an error.   *)
(***************************************************************************)
ClockEntry(u, out) == [user |-> u, clock_out |-> out]

\* the select without its user filter
OpenEntriesAnyUser(tc, u) == {i \in DOMAIN tc : tc[i].clock_out = None}

\* select * from time_clock where store_id, user_id, clock_out is null
OpenEntries(tc, u) ==
    {i \in DOMAIN tc : tc[i].user = u /\ tc[i].clock_out = None}

\* clock_in, lines 2558-2560: the check for an open entry
clock_in_select(r, u) ==
    /\ CanStart(r)
    /\ reqs' = [reqs EXCEPT ![r] =
            IF OpenEntries(timeClock, u) # {}
            THEN Answer(Step("clock_in", "select", u, 0, 0), 400)
            ELSE Step("clock_in", "insert", u, 0, 0)]
    /\ UNCHANGED <<timeClock, stock, workers>>
    /\ UNCHANGED analyticsVars
    /\ UNCHANGED apiVars

\* clock_in, lines 2570-2575: the insert, or the exception it raises
clock_in_insert(r) ==
    /\ At(r, "clock_in", "insert")
    /\ \/ /\ timeClock' = Append(timeClock, ClockEntry(reqs[r].user, None))
          /\ reqs' = [reqs EXCEPT ![r] = Answer(reqs[r], 201)]
       \/ /\ timeClock' = timeClock
          /\ reqs' = [reqs EXCEPT ![r] = Answer(reqs[r], 500)]
    /\ UNCHANGED <<stock, workers>>
    /\ UNCHANGED analyticsVars
    /\ UNCHANGED apiVars

\* clock_out, lines 2587-2589: the lookup of the open entry with .single()
clock_out_select(r, u) ==
    /\ CanStart(r)
    /\ LET existing == OpenEntries(timeClock, u)
       IN  reqs' = [reqs EXCEPT ![r] =
                IF existing = {}
                THEN Answer(Step("clock_out", "select", u, 0, 0), 400)
                ELSE IF Cardinality(existing) > 1
                THEN Answer(Step("clock_out", "select", u, 0, 0), 500)
                ELSE Step("clock_out", "update", u, 0,
                          CHOOSE i \in existing : TRUE)]
    /\ UNCHANGED <<timeClock, stock, workers>>
    /\ UNCHANGED analyticsVars
    /\ UNCHANGED apiVars

\* clock_out, lines 2609-2615: the update of the entry by its id, or the
\* exception it raises
clock_out_update(r) ==
    /\ At(r, "clock_out", "update")
    /\ \/ /\ timeClock' = [timeClock EXCEPT ![reqs[r].seen].clock_out = Some(now)]
          /\ reqs' = [reqs EXCEPT ![r] = Answer(reqs[r], 200)]
       \/ /\ timeClock' = timeClock
          /\ reqs' = [reqs EXCEPT ![r] = Answer(reqs[r], 500)]
    /\ UNCHANGED <<stock, workers>>
    /\ UNCHANGED analyticsVars
    /\ UNCHANGED apiVars

\* the other variables while the request endpoints are exercised
NoAnalytics ==
    /\ dbSales = <<>>
    /\ dbProducts = NoProducts
    /\ days = DefaultDays
    /\ now \in NowSet
    /\ pc = "ready"
    /\ salesFailed = FALSE
    /\ productsFailed = FALSE
    /\ sales = <<>>
    /\ products = NoProducts
    /\ result = NotCalled
    /\ calls = 0
    /\ prev = NotCalled
    /\ DirectCall

ClockTables == {<<>>, <<ClockEntry("u1", None)>>}

\* requests handled one at a time
InitClock ==
    /\ NoAnalytics
    /\ timeClock \in ClockTables
    /\ stock = <<>>
    /\ reqs = [r \in 1..MaxReqs |-> Idle]
    /\ workers = 1

\* two worker threads
InitClockRace ==
    /\ NoAnalytics
    /\ timeClock \in ClockTables
    /\ stock = <<>>
    /\ reqs = [r \in 1..MaxReqs |-> Idle]
    /\ workers = 2

NextClock ==
    \E r \in 1..MaxReqs :
        \/ \E u \in Users : clock_in_select(r, u)
        \/ clock_in_insert(r)
        \/ \E u \in Users : clock_out_select(r, u)
        \/ clock_out_update(r)

SpecClock == InitClock /\ [][NextClock]_vars

SpecClockRace == InitClockRace /\ [][NextClock]_vars

(***************************************************************************)
(* POST /products (src/app/main.py, create_product) with the limit check   *)
(* of src/app/subscriptions.py, enforce_limits_on_create_product.  The     *)
(* check and the insert are separate queries of one request.               *)
(***************************************************************************)
\* the products table of a store that holds n products
Stocked(n) == [pid \in 1..n |-> Product("P", 1000, Num(300))]

\* len(count.data or []) of subscriptions.py lines 96-97
ProductCount(table) == Cardinality(DOMAIN table)

\* the payload's price
Prices == {1000, 8}

\* subscriptions.py line 98
LimitReached(total, limit) == total >= limit

\* main.py lines 157-159 and subscriptions.py lines 90-99: the role check,
\* the plan of the store and the count of its products.  The plan is read
\* from the subscriptions table, which no request writes.
enforce_limits_on_create_product(r, price) ==
    /\ CanStart(r)
    /\ LET req == Step("create_product", "check", "u1", price, ProductCount(dbProducts))
           l   == StorePlan(override, subscription, now)
       IN  reqs' = [reqs EXCEPT ![r] =
                IF role # "admin" THEN Answer(req, 403)
                ELSE IF l.kind = "raised" THEN Answer(req, 500)
                ELSE IF max_products(l) = None THEN [req EXCEPT !.pc = "insert"]
                ELSE IF LimitReached(ProductCount(dbProducts), max_products(l)[1])
                     THEN Answer(req, 402)
                ELSE [req EXCEPT !.pc = "insert"]]
    /\ limits' = StorePlan(override, subscription, now)
    /\ UNCHANGED <<dbSales, dbProducts, days, now, pc, salesFailed, productsFailed,
                   sales, products, result, calls, prev>>
    /\ UNCHANGED <<role, override, subscription, requested, response>>
    /\ UNCHANGED <<timeClock, stock, workers>>

\* main.py lines 160-201: the insert; the row comes back (201), the insert
\* raises (500), or the row is written and cannot be read back (500)
create_product_insert(r) ==
    /\ At(r, "create_product", "insert")
    /\ LET row == Product("New", reqs[r].arg, Num(0))
           id  == ProductCount(dbProducts) + 1
       IN  \/ /\ dbProducts' = dbProducts @@ (id :> row)
              /\ reqs' = [reqs EXCEPT ![r] = Answer(reqs[r], 201)]
           \/ /\ dbProducts' = dbProducts
              /\ reqs' = [reqs EXCEPT ![r] = Answer(reqs[r], 500)]
           \/ /\ dbProducts' = dbProducts @@ (id :> row)
              /\ reqs' = [reqs EXCEPT ![r] = Answer(reqs[r], 500)]
    /\ UNCHANGED <<dbSales, days, now, pc, salesFailed, productsFailed,
                   sales, products, result, calls, prev>>
    /\ UNCHANGED apiVars
    /\ UNCHANGED <<timeClock, stock, workers>>

\* the subscriptions row of the store: lapsed, paid, or unreadable
StoreLookups ==
    {Row("free", "expired", NoTrialEnd), Row("pro", "canceled", NoTrialEnd),
     Row("pro", "active", NoTrialEnd), NoRow("empty"), NoRow("raises")}

InitialCounts == {RestrictedMaxProducts - 2, RestrictedMaxProducts - 1,
                  RestrictedMaxProducts}

InitCreate ==
    /\ dbSales = <<>>
    /\ dbProducts \in {Stocked(n) : n \in InitialCounts}
    /\ days = DefaultDays
    /\ now \in NowSet
    /\ pc = "ready"
    /\ salesFailed = FALSE
    /\ productsFailed = FALSE
    /\ sales = <<>>
    /\ products = NoProducts
    /\ result = NotCalled
    /\ calls = 0
    /\ prev = NotCalled
    /\ role \in Roles
    /\ override = ""
    /\ subscription \in StoreLookups
    /\ requested = days
    /\ limits = NotCalled
    /\ response = NotCalled
    /\ timeClock = <<>>
    /\ stock = <<>>
    /\ reqs = [r \in 1..MaxReqs |-> Idle]
    /\ workers = 2

NextCreate ==
    \E r \in 1..MaxReqs :
        \/ \E price \in Prices : enforce_limits_on_create_product(r, price)
        \/ create_product_insert(r)

SpecCreate == InitCreate /\ [][NextCreate]_vars

(***************************************************************************)
(* POST /returns (src/app/main.py, process_return): the product lookup,    *)
(* the update of the product's quantity and the insert of the return       *)
(* record are three queries, in this order, inside one try block.          *)
(***************************************************************************)
\* the payload: product_id and quantity_returned, kept in one number
ReturnArg(pid, qty) == pid * 10 + qty
ArgProduct(arg) == arg \div 10
ArgQuantity(arg) == arg % 10

\* product 3 is not in the store's catalog
ReturnedProducts == {1, 2, 3}
ReturnedQuantities == {1, 2}

\* products.quantity of the store's products
InitialStock == (1 :> 5) @@ (2 :> 0)

\* _now_utc_iso()
NowIso(nw) == TS("isoT", nw, TRUE, 0)

\* the record of lines 348-355
ReturnRecord(pid, qty, price, nw) == Sale(pid, -qty, -(price * qty), NowIso(nw))

\* lines 333-335: the lookup with .single(); no row is answered 404
process_return_select(r, pid, qty) ==
    /\ CanStart(r)
    /\ reqs' = [reqs EXCEPT ![r] =
            IF pid \notin DOMAIN dbProducts
            THEN Answer(Step("process_return", "select", "u1", ReturnArg(pid, qty), 0), 404)
            ELSE Step("process_return", "update", "u1", ReturnArg(pid, qty), stock[pid])]
    /\ UNCHANGED <<timeClock, stock, workers>>
    /\ UNCHANGED analyticsVars
    /\ UNCHANGED apiVars

\* lines 341-345: the quantity read by the lookup plus quantity_returned is
\* written back; an exception of the client is answered 400 (line 386)
process_return_update(r) ==
    /\ At(r, "process_return", "update")
    /\ LET pid == ArgProduct(reqs[r].arg)
           qty == ArgQuantity(reqs[r].arg)
       IN  \/ /\ stock' = [stock EXCEPT ![pid] = reqs[r].seen + qty]
              /\ reqs' = [reqs EXCEPT ![r].pc = "insert"]
           \/ /\ stock' = stock
              /\ reqs' = [reqs EXCEPT ![r] = Answer(reqs[r], 400)]
    /\ UNCHANGED <<timeClock, workers>>
    /\ UNCHANGED analyticsVars
    /\ UNCHANGED apiVars

\* lines 348-385: the insert of the return record; it returns the row (201),
\* raises (400, line 386) or returns no data (500, line 358)
process_return_insert(r) ==
    /\ At(r, "process_return", "insert")
    /\ LET pid == ArgProduct(reqs[r].arg)
           qty == ArgQuantity(reqs[r].arg)
       IN  \/ /\ dbSales' = Append(dbSales,
                    ReturnRecord(pid, qty, dbProducts[pid].price, now))
              /\ reqs' = [reqs EXCEPT ![r] = Answer(reqs[r], 201)]
           \/ /\ dbSales' = dbSales
              /\ reqs' = [reqs EXCEPT ![r] = Answer(reqs[r], 400)]
           \/ /\ dbSales' = dbSales
              /\ reqs' = [reqs EXCEPT ![r] = Answer(reqs[r], 500)]
    /\ UNCHANGED <<dbProducts, days, now, pc, salesFailed, productsFailed,
                   sales, products, result, calls, prev>>
    /\ UNCHANGED apiVars
    /\ UNCHANGED <<timeClock, stock, workers>>

\* requests handled one at a time
InitReturn ==
    /\ dbSales = <<>>
    /\ dbProducts \in {Catalog(Num(2))}
    /\ days = DefaultDays
    /\ now \in NowSet
    /\ pc = "ready"
    /\ salesFailed = FALSE
    /\ productsFailed = FALSE
    /\ sales = <<>>
    /\ products = NoProducts
    /\ result = NotCalled
    /\ calls = 0
    /\ prev = NotCalled
    /\ DirectCall
    /\ timeClock = <<>>
    /\ stock = InitialStock
    /\ reqs = [r \in 1..MaxReqs |-> Idle]
    /\ workers = 1

NextReturn ==
    \E r \in 1..MaxReqs :
        \/ \E pid \in ReturnedProducts, qty \in ReturnedQuantities :
                process_return_select(r, pid, qty)
        \/ process_return_update(r)
        \/ process_return_insert(r)

SpecReturn == InitReturn /\ [][NextReturn]_vars

Returned == pc = "done" /\ result.kind = "summary"

(***************************************************************************)
(* Vocabulary of the properties.                                           *)
(***************************************************************************)
StartDay == DateOnly(StartDate(now, days))
EndDay == DateOnly(now)

\* one entry per calendar day from the start date to the end date inclusive,
\* ascending, no gap, no duplicate
CoversWindow(trends) ==
    /\ Len(trends) = EndDay - StartDay + 1
    /\ \A i \in 1..Len(trends) : trends[i].date = StartDay + i - 1

\* hours 0, 1, ..., 23 in ascending order
CoversDay(hourly) ==
    /\ Len(hourly) = 24
    /\ \A i \in 1..Len(hourly) : hourly[i].hour = i - 1

Revenues(trends) == [i \in 1..Len(trends) |-> trends[i].revenue]
Counts(entries) == [i \in 1..Len(entries) |-> entries[i].sales_count]

AllTimestamped(ss) == \A i \in 1..Len(ss) : DailyParses(ss[i].timestamp)

InWindow(ts) == DayOf(ts) >= StartDay /\ DayOf(ts) <= EndDay

DaysWithSales(trends) == {i \in 1..Len(trends) : trends[i].sales_count > 0}

EmptyBatchTotals ==
    /\ result.kind = "summary"
    /\ result.total_revenue = 0
    /\ result.total_sales = 0
    /\ result.best_day = None

SummaryFields ==
    {"kind", "period_days", "total_revenue", "total_profit", "total_sales",
     "avg_transaction_value", "profit_margin", "best_day", "best_day_revenue",
     "worst_day", "worst_day_revenue", "revenue_trend", "sales_trends",
     "top_products", "hourly_breakdown"}

C4_NeverRaises ==
    pc = "done" =>
        /\ result.kind = "summary"
        /\ DOMAIN result = SummaryFields
        /\ result.period_days = days

(***************************************************************************)
(* C5. A failed sales fetch is treated as an empty batch: the all-zero     *)
(* summary is returned.  A failed products fetch is treated as an empty    *)
(* catalog: the engine still returns, and total_revenue, total_sales, the  *)
(* revenue of sales_trends and hourly_breakdown are what the same call     *)
(* returns with the catalog present.                                       *)
(***************************************************************************)
WithCatalog == Analyse(FetchSales(dbSales, salesFailed), dbProducts, now, days)

C5_FetchFailureDegrades ==
    pc = "done" =>
        /\ salesFailed =>
            /\ result.kind = "summary"
            /\ result.total_revenue = 0
            /\ result.total_profit = 0
            /\ result.total_sales = 0
            /\ result.avg_transaction_value = 0
            /\ result.profit_margin = 0
            /\ result.best_day = None
        /\ productsFailed =>
            LET present == WithCatalog
            IN  /\ result.kind = "summary"
                /\ present.kind = "summary" =>
                    /\ result.total_revenue = present.total_revenue
                    /\ result.total_sales = present.total_sales
                    /\ Revenues(result.sales_trends) = Revenues(present.sales_trends)
                    /\ Counts(result.sales_trends) = Counts(present.sales_trends)
                    /\ result.hourly_breakdown = present.hourly_breakdown

C5_Witness ==
    /\ pc = "done"
    /\ productsFailed
    /\ ~salesFailed
    /\ result.kind = "summary"
    /\ result.total_revenue > 0
    /\ LET present == WithCatalog
       IN  /\ present.kind = "summary"
           /\ present.total_profit # result.total_profit

(***************************************************************************)
(* C6. total_profit is the sum over all sales of gross_amount -            *)
(* unit_cost(product_id) * quantity, where a sale whose product_id is      *)
(* absent from the catalog contributes its gross_amount (cost basis zero). *)
(***************************************************************************)
\* the cost basis the specification gives a sale: the catalog's cost, and
\* zero when the product is absent or its cost is missing, null or invalid
UnitCost(prods, pid) == IF InCatalog(prods, pid) THEN CostOf(prods[pid]) ELSE 0

SpecifiedProfit(ss, prods) ==
    SumSeq([i \in 1..Len(ss) |->
        ss[i].total_price - UnitCost(prods, ss[i].product_id) * ss[i].quantity_sold])

C6_ProfitOfAbsentProductIsGross ==
    (Returned /\ sales # <<>> /\ ~productsFailed) =>
        result.total_profit = Round2(SpecifiedProfit(sales, products))

(***************************************************************************)
(* C7. A cost value that is missing, null or non-numeric resolves to a     *)
(* cost basis of 0 in every profit calculation and never produces an       *)
(* error.  Stated for batches whose products are all in the catalog, where *)
(* the cost value is the only thing that decides the profit.               *)
(***************************************************************************)
AllInCatalog(ss, prods) ==
    \A i \in 1..Len(ss) : InCatalog(prods, ss[i].product_id)

C7_BadCostResolvesToZero ==
    (pc = "done" /\ sales # <<>> /\ AllInCatalog(sales, products)) =>
        /\ result.kind = "summary"
        /\ result.total_profit = Round2(SpecifiedProfit(sales, products))

(***************************************************************************)
(* C8. When every sale in the batch has a parseable timestamp, the sum of  *)
(* revenue over all sales_trends entries equals total_revenue.             *)
(***************************************************************************)
C8_TrendRevenueSumsToTotal ==
    (Returned /\ AllTimestamped(sales)) =>
        SumSeq(Revenues(result.sales_trends)) = result.total_revenue

\* C8 as amended: when every sale has a parseable timestamp whose UTC day
\* lies in the window, the two agree within rounding tolerance (half a cent
\* for each day with sales and half a cent for the total), and exactly when
\* every amount is a whole number of cents
WholeCents(ss) == \A i \in 1..Len(ss) : ss[i].total_price % 10 = 0

C8_TrendRevenueSumsToTotalInWindow ==
    (/\ Returned
     /\ sales # <<>>
     /\ AllTimestamped(sales)
     /\ \A i \in 1..Len(sales) : InWindow(sales[i].timestamp)) =>
        LET diff == SumSeq(Revenues(result.sales_trends)) - result.total_revenue
        IN  /\ Abs(diff) <= 5 * (Cardinality(DaysWithSales(result.sales_trends)) + 1)
            /\ WholeCents(sales) => diff = 0

C8_Witness ==
    /\ Returned
    /\ Len(sales) >= 2
    /\ AllTimestamped(sales)
    /\ \A i \in 1..Len(sales) : InWindow(sales[i].timestamp)
    /\ Cardinality(DaysWithSales(result.sales_trends)) >= 2
    /\ result.total_revenue > 0
    /\ SumSeq(Revenues(result.sales_trends)) = result.total_revenue

(***************************************************************************)
(* C9. top_products has at most 10 entries, contains the products with     *)
(* the highest summed revenue, and is ordered by total_revenue in          *)
(* non-increasing order.                                                   *)
(***************************************************************************)
ProductsSold(ss) == {ss[i].product_id : i \in 1..Len(ss)}

SummedRevenue(ss, pid) ==
    SumSeq([i \in 1..Len(ss) |->
        IF ss[i].product_id = pid THEN ss[i].total_price ELSE 0])

Listed(top) == {top[i].product_id : i \in 1..Len(top)}

C9_TopProductsRanked ==
    Returned =>
        LET top == result.top_products
        IN  /\ Len(top) <= 10
            /\ Listed(top) \subseteq ProductsSold(sales)
            /\ Cardinality(Listed(top)) = Len(top)
            /\ Cardinality(ProductsSold(sales)) <= 10 =>
                    Listed(top) = ProductsSold(sales)
            /\ Cardinality(ProductsSold(sales)) > 10 => Len(top) = 10
            /\ \A i \in 1..Len(top) :
                    top[i].total_revenue = Round2(SummedRevenue(sales, top[i].product_id))
            /\ \A i \in 1..Len(top), j \in 1..Len(top) :
                    i < j => top[i].total_revenue >= top[j].total_revenue
            /\ \A i \in 1..Len(top) : top[i].total_revenue <= top[1].total_revenue
            /\ \A p \in ProductsSold(sales) \ Listed(top), q \in Listed(top) :
                    SummedRevenue(sales, p) <= SummedRevenue(sales, q)

C9_Witness ==
    /\ Returned
    /\ Cardinality(ProductsSold(sales)) > 10
    /\ Len(result.top_products) = 10
    /\ result.top_products[1].total_revenue > result.top_products[10].total_revenue
    /\ \E i \in 1..Len(sales) :
            /\ sales[i].product_id \notin Listed(result.top_products)
            /\ i < Len(sales)

(***************************************************************************)
(* C10. A sale whose timestamp is missing or unparseable is excluded from  *)
(* every sales_trends day bucket and every hourly_breakdown bucket, but is *)
(* still counted in total_revenue, total_sales, total_profit and the       *)
(* per-product ranking; the other sales are processed unaffected.          *)
(* Stated as: the day and hour buckets are those of the batch without its  *)
(* untimestamped sales, the totals and the ranking those of the whole      *)
(* batch.                                                                  *)
(***************************************************************************)
Timestamped(ss) == SelectSeq(ss, LAMBDA s : DailyParses(s.timestamp))

BucketSum(entries) == SumSeq(Counts(entries))

C10_UntimestampedSaleOnlyInTotals ==
    (Returned /\ sales # <<>>) =>
        /\ BucketSum(result.sales_trends) <= Len(Timestamped(sales))
        /\ BucketSum(result.hourly_breakdown) <= Len(Timestamped(sales))
        /\ result.sales_trends =
                SalesTrends(DailyData(Timestamped(sales), products), now, days)
        /\ result.hourly_breakdown = HourlyBreakdown(Timestamped(sales))
        /\ result.total_sales = Len(sales)
        /\ result.total_revenue = Round2(TotalRevenue(sales))
        /\ result.total_profit = Round2(TotalProfit(sales, products))
        /\ ProductsSold(sales) = Listed(result.top_products)

(***************************************************************************)
(* C11. get_analytics is deterministic and holds no state across calls:    *)
(* two calls with identical sales batch, identical product batch and       *)
(* identical window return identical AnalyticsSummary values, whatever     *)
(* calls were made in between.  The window is the period in days together  *)
(* with the UTC date it ends on; the time of day of the call is free.      *)
(***************************************************************************)
SameInputs(call) ==
    /\ call.sales = sales
    /\ call.products = products
    /\ call.days = days
    /\ call.now \div 24 = now \div 24

C11_SameInputsSameSummary ==
    (pc = "done" /\ prev.kind = "call" /\ SameInputs(prev)) =>
        result = prev.result

C11_Witness ==
    /\ Returned
    /\ prev.kind = "call"
    /\ prev.at = 1
    /\ calls = 3
    /\ SameInputs(prev)
    /\ prev.now # now
    /\ Len(sales) = 2
    /\ result.total_revenue > 0
    /\ result = prev.result

(***************************************************************************)
(* C12. best_day and worst_day are the days with the maximum and the       *)
(* minimum summed revenue among the days that have at least one            *)
(* timestamped sale; days with no activity are never selected even though  *)
(* they appear in sales_trends with revenue 0 (a day with only returns is  *)
(* eligible with its negative revenue); when no day has activity both are  *)
(* null with revenue 0.                                                    *)
(***************************************************************************)
ActiveDays(ss) ==
    {DayOf(ss[i].timestamp) : i \in {j \in 1..Len(ss) : DailyParses(ss[j].timestamp)}}

DayRevenue(ss, d) ==
    SumSeq([i \in 1..Len(ss) |->
        IF DailyParses(ss[i].timestamp) /\ DayOf(ss[i].timestamp) = d
        THEN ss[i].total_price ELSE 0])

C12_BestWorstAmongActiveDays ==
    Returned =>
        LET active == ActiveDays(sales)
        IN  IF active = {}
            THEN /\ result.best_day = None
                 /\ result.best_day_revenue = 0
                 /\ result.worst_day = None
                 /\ result.worst_day_revenue = 0
            ELSE /\ \E d \in active :
                        /\ result.best_day = Some(d)
                        /\ result.best_day_revenue = Round2(DayRevenue(sales, d))
                        /\ \A e \in active : DayRevenue(sales, e) <= DayRevenue(sales, d)
                 /\ \E d \in active :
                        /\ result.worst_day = Some(d)
                        /\ result.worst_day_revenue = Round2(DayRevenue(sales, d))
                        /\ \A e \in active : DayRevenue(sales, e) >= DayRevenue(sales, d)

\* a day of returns only is the worst day, an earlier day the best, and the
\* day between them has no activity
C12_Witness ==
    /\ Returned
    /\ result.best_day # None
    /\ result.worst_day # None
    /\ result.worst_day_revenue < 0
    /\ result.best_day_revenue > 0
    /\ result.best_day[1] < result.worst_day[1]
    /\ \E i \in 1..Len(result.sales_trends) :
            /\ result.sales_trends[i].sales_count = 0
            /\ result.sales_trends[i].date > result.best_day[1]
            /\ result.sales_trends[i].date < result.worst_day[1]

(***************************************************************************)
(* C13. revenue_trend is computed over the full sales_trends sequence      *)
(* (zero days included) split at index len // 2: if the sequence has at    *)
(* least 2 entries and the mean revenue of the first half is > 0, it is    *)
(* (second_mean - first_mean) / first_mean * 100, otherwise it is 0; daily *)
(* revenues [100,100,100,100,1000,1000,1000,1000] give 900.  The value is  *)
(* reported to one decimal, so it is the multiple of 0.1 nearest to the    *)
(* quotient; with means m1 = s1 / n1 and m2 = s2 / n2 the quotient in      *)
(* tenths of a percent is (s2 * n1 - s1 * n2) * 1000 / (s1 * n2).          *)
(***************************************************************************)
\* q is an integer nearest to a / b, for b > 0
IsNearest(q, a, b) == 2 * Abs(q * b - a) <= b

C13_TrendOverFullSequence ==
    Returned =>
        LET t  == result.sales_trends
            n1 == Len(t) \div 2
            n2 == Len(t) - n1
            s1 == SumSeq([i \in 1..n1 |-> t[i].revenue])
            s2 == SumSeq([i \in 1..n2 |-> t[n1 + i].revenue])
        IN  IF Len(t) >= 2 /\ s1 > 0
            THEN IsNearest(result.revenue_trend, (s2 * n1 - s1 * n2) * 1000, s1 * n2)
            ELSE result.revenue_trend = 0

\* the scenario of the claim, in units of 0.01: eight days, four at 1.00 and
\* four at 10.00, a trend of 900.0 percent
C13_Witness ==
    /\ Returned
    /\ Revenues(result.sales_trends) =
            <<1000, 1000, 1000, 1000, 10000, 10000, 10000, 10000>>
    /\ result.revenue_trend = 9000

(***************************************************************************)
(* C14. profit_margin equals total_profit / total_revenue * 100 whenever   *)
(* total_revenue is not 0 (including when net revenue is negative because  *)
(* returns exceed sales), and equals 0 exactly in the guarded case         *)
(* total_revenue = 0.  The margin is reported to one decimal: in tenths of *)
(* a percent it is the integer nearest to total_profit * 1000 /            *)
(* total_revenue.                                                          *)
(***************************************************************************)
C14_MarginWheneverRevenueNonZero ==
    (Returned /\ sales # <<>>) =>
        LET revenue == SumSeq([i \in 1..Len(sales) |-> sales[i].total_price])
            profit  == TotalProfit(sales, products)
        IN  IF revenue # 0
            THEN 2 * Abs(result.profit_margin * revenue - profit * 1000) <= Abs(revenue)
            ELSE result.profit_margin = 0

(***************************************************************************)
(* C15. Returns are signed contributions: total_revenue is the signed sum  *)
(* of gross amounts of all sales and a product's total_sold is the signed  *)
(* sum of its quantities, so a sale of qty 5 / amount 500 followed by a    *)
(* return of qty -2 / amount -200 on the same product yields total_revenue *)
(* 300 and total_sold 3, with total_sales counting both records.           *)
(***************************************************************************)
SummedQuantity(ss, pid) ==
    SumSeq([i \in 1..Len(ss) |->
        IF ss[i].product_id = pid THEN ss[i].quantity_sold ELSE 0])

C15_ReturnsAreSigned ==
    (Returned /\ sales # <<>>) =>
        /\ result.total_revenue =
                Round2(SumSeq([i \in 1..Len(sales) |-> sales[i].total_price]))
        /\ result.total_sales = Len(sales)
        /\ \A i \in 1..Len(result.top_products) :
                result.top_products[i].total_sold =
                    SummedQuantity(sales, result.top_products[i].product_id)

\* the scenario of the claim, in units of 0.01: 5 units for 5.00, then a
\* return of 2 units for -2.00
C15_Witness ==
    /\ Returned
    /\ Len(sales) = 2
    /\ sales[1].quantity_sold = 5 /\ sales[1].total_price = 5000
    /\ sales[2].quantity_sold = -2 /\ sales[2].total_price = -2000
    /\ sales[1].product_id = sales[2].product_id
    /\ result.total_revenue = 3000
    /\ result.total_sales = 2
    /\ Len(result.top_products) = 1
    /\ result.top_products[1].total_sold = 3

(***************************************************************************)
(* C16. The /analytics endpoint invokes get_analytics only when the        *)
(* caller's role is admin and the store's plan allows advanced reports: a  *)
(* non-admin gets 403 (checked before the plan), an admin on a plan        *)
(* without advanced reports gets 402, and in both cases get_analytics is   *)
(* not called; when it is called, the days argument is always within       *)
(* 1..365 (requests below 1 are raised to 1, above 365 lowered to 365).    *)
(***************************************************************************)
Answered == pc = "done" /\ response.kind = "http"

C16_AnalyticsGated ==
    Answered =>
        /\ role # "admin" =>
                /\ response.status = 403
                /\ limits = NotCalled
                /\ calls = 0
        /\ (role = "admin" /\ limits.kind = "limits"
                /\ ~allow_advanced_reports(limits)) =>
                /\ response.status = 402
                /\ calls = 0
        /\ calls > 0 =>
                /\ role = "admin"
                /\ limits.kind = "limits"
                /\ allow_advanced_reports(limits)
                /\ days \in 1..365
                /\ requested < 1 => days = 1
                /\ requested > 365 => days = 365
                /\ requested \in 1..365 => days = requested
                /\ result.kind = "summary" => result.period_days = days

\* an admin of a store on a trial asks for 366 days and is served 365
C16_Witness ==
    /\ Answered
    /\ role = "admin"
    /\ override = ""
    /\ limits.kind = "limits"
    /\ limits.status = "trialing"
    /\ calls = 1
    /\ requested = 366
    /\ days = 365
    /\ response.status = 200
    /\ result.kind = "summary"
    /\ Len(result.sales_trends) = 366

(***************************************************************************)
(* Vocabulary of the plan properties.                                      *)
(***************************************************************************)
Built == pc = "done" /\ limits.kind = "limits"

NoPaidFeature(l) ==
    /\ ~allow_csv_export(l)
    /\ ~allow_low_stock_alerts(l)
    /\ ~allow_audit_logs(l)
    /\ ~allow_advanced_reports(l)

EveryPaidFeature(l) ==
    /\ allow_csv_export(l)
    /\ allow_low_stock_alerts(l)
    /\ allow_audit_logs(l)
    /\ allow_advanced_reports(l)

Restricted(l) ==
    /\ max_products(l) = Some(10)
    /\ max_users(l) = 1
    /\ NoPaidFeature(l)

(***************************************************************************)
(* C17. A store on the 'free' plan with status 'active' is active but      *)
(* limited: max_products is 10, max_users is 1, and CSV export, low-stock  *)
(* alerts, audit logs and advanced reports are all disallowed.             *)
(***************************************************************************)
C17_FreePlanIsLimited ==
    (Built /\ limits.plan = "free" /\ limits.status = "active") =>
        /\ is_active(limits)
        /\ Restricted(limits)

(***************************************************************************)
(* C18. A subscription with status 'trialing' whose trial_end is in the    *)
(* future or absent gives full access regardless of the plan name:         *)
(* is_active is true, max_products is unlimited, max_users is 999, and CSV *)
(* export, low-stock alerts, audit logs and advanced reports are all       *)
(* allowed.                                                                *)
(***************************************************************************)
TrialRunning(l) ==
    /\ l.status = "trialing"
    /\ \/ l.trial_end.kind = "none"
       \/ l.trial_end.kind \in {"aware", "naive"} /\ l.trial_end.at > now

C18_RunningTrialHasFullAccess ==
    (Built /\ TrialRunning(limits)) =>
        /\ is_active(limits)
        /\ max_products(limits) = None
        /\ max_users(limits) = 999
        /\ EveryPaidFeature(limits)

(***************************************************************************)
(* C19. For every plan name, a subscription whose status is 'expired',     *)
(* 'past_due' or 'canceled', or 'trialing' with a trial_end in the past or *)
(* unparseable, is not active and is restricted to max_products 10,        *)
(* max_users 1 and no paid feature; equivalently, every allow_* flag being *)
(* true implies is_active.                                                 *)
(***************************************************************************)
Lapsed(l) ==
    \/ l.status \in {"expired", "past_due", "canceled"}
    \/ /\ l.status = "trialing"
       /\ \/ l.trial_end.kind = "aware" /\ l.trial_end.at < now
          \/ l.trial_end.kind \in {"text", "notstr"}

AnyFeature(l) ==
    \/ allow_multiple_users(l)
    \/ allow_csv_export(l)
    \/ allow_low_stock_alerts(l)
    \/ allow_audit_logs(l)
    \/ allow_advanced_reports(l)

Active(l) ==
    \/ l.status = "active"
    \/ /\ l.status = "trialing"
       /\ \/ l.trial_end.kind \in {"none", "empty"}
          \/ l.trial_end.kind = "aware" /\ l.trial_end.at > now

C19_LapsedPlanIsRestricted ==
    Built =>
        /\ Lapsed(limits) =>
                /\ ~is_active(limits)
                /\ Restricted(limits)
                /\ ~allow_multiple_users(limits)
        /\ AnyFeature(limits) => Active(limits)

\* a business plan whose trial ended yesterday
C19_Witness ==
    /\ Built
    /\ limits.plan = "business"
    /\ limits.status = "trialing"
    /\ limits.trial_end.kind = "aware"
    /\ limits.trial_end.at < now
    /\ max_users(limits) = 1
    /\ max_products(limits) = Some(10)

(***************************************************************************)
(* C20. get_store_plan fails closed: when the subscription lookup raises   *)
(* (and no DEV_PLAN_OVERRIDE of 'pro' or 'business' is set) it returns a   *)
(* plan with plan = 'expired', status = 'expired' and is_active = false,   *)
(* never raising and never granting a paid feature.                        *)
(***************************************************************************)
LookupFailed ==
    /\ pc = "done"
    /\ subscription.kind = "raises"
    /\ override \notin {"pro", "business"}
    /\ limits # NotCalled

C20_StorePlanFailsClosed ==
    LookupFailed =>
        /\ limits.kind = "limits"
        /\ limits.plan = "expired"
        /\ limits.status = "expired"
        /\ ~is_active(limits)
        /\ ~AnyFeature(limits)

C20_Witness ==
    /\ LookupFailed
    /\ override = "free"
    /\ response = NotCalled
    /\ limits.kind = "limits"
    /\ max_products(limits) = Some(10)

(***************************************************************************)
(* Vocabulary of the request properties.                                   *)
(***************************************************************************)
OpenFor(tc, u) == {i \in 1..Len(tc) : tc[i].user = u /\ tc[i].clock_out = <<>>}

\* request r arrives in this step, for handler op
Arrives(r, op) == reqs[r].pc = "idle" /\ reqs'[r].op = op

\* request r is answered in this step, with status
Answers(r, op, status) ==
    /\ reqs[r].response = NotCalled
    /\ reqs'[r].op = op
    /\ reqs'[r].response = Http(status)

Rejected(r, status) ==
    /\ reqs'[r].pc = "done"
    /\ reqs'[r].response = Http(status)
    /\ timeClock' = timeClock

(***************************************************************************)
(* C21. Time-clock ordering per user: clock-in is rejected with 400 and    *)
(* inserts nothing while the user has an open entry (clock_out null);      *)
(* clock-out is rejected with 400 and updates nothing when the user has no *)
(* open entry; a successful clock-out closes the user's open entry, after  *)
(* which a clock-in succeeds again.  Stated on the steps of the requests   *)
(* of a user that arrive one after the other: a request that arrives is    *)
(* rejected exactly in the two cases named, a clock-out answered 200       *)
(* leaves the user without open entry, and a clock-in answered 201 leaves  *)
(* the user with exactly one.                                              *)
(***************************************************************************)
C21_ClockOrdering ==
    [][\A r \in DOMAIN reqs :
        /\ Arrives(r, "clock_in") =>
              IF OpenFor(timeClock, reqs'[r].user) # {}
              THEN Rejected(r, 400)
              ELSE reqs'[r].pc # "done"
        /\ Arrives(r, "clock_out") =>
              IF OpenFor(timeClock, reqs'[r].user) = {}
              THEN Rejected(r, 400)
              ELSE reqs'[r].pc # "done"
        /\ Answers(r, "clock_out", 200) =>
              /\ OpenFor(timeClock, reqs'[r].user) # {}
              /\ OpenFor(timeClock', reqs'[r].user) = {}
        /\ Answers(r, "clock_in", 201) =>
              /\ OpenFor(timeClock, reqs'[r].user) = {}
              /\ Cardinality(OpenFor(timeClock', reqs'[r].user)) = 1
    ]_vars

\* a user clocks in, clocks out and clocks in again
C21_Witness ==
    /\ workers = 1
    /\ Len(reqs) >= 3
    /\ reqs[1].op = "clock_in" /\ reqs[1].response = Http(201)
    /\ reqs[2].op = "clock_out" /\ reqs[2].response = Http(200)
    /\ reqs[3].op = "clock_in" /\ reqs[3].response = Http(201)
    /\ reqs[1].user = reqs[2].user /\ reqs[2].user = reqs[3].user
    /\ Len(timeClock) = 2
    /\ timeClock[1].clock_out # <<>>
    /\ timeClock[2].clock_out = <<>>

(***************************************************************************)
(* C28. In every reachable state, under every interleaving of concurrent   *)
(* clock-in and clock-out requests by the same user in the same store, the *)
(* time_clock table holds at most one entry for that user with clock_out   *)
(* null.                                                                   *)
(***************************************************************************)
C28_AtMostOneOpenEntry ==
    \A u \in Users : Cardinality(OpenFor(timeClock, u)) <= 1

(***************************************************************************)
(* C22. When the sales batch is empty (or its fetch failed), get_analytics *)
(* short-circuits before any daily, hourly or product work: it returns     *)
(* period_days = days, all totals 0, best_day and worst_day null,          *)
(* revenue_trend 0, and empty sales_trends, top_products and               *)
(* hourly_breakdown sequences.  No product work: the catalog, whatever its *)
(* cost values are, plays no part in the answer.                           *)
(***************************************************************************)
C22_EmptyBatchShortCircuits ==
    (pc = "done" /\ (salesFailed \/ dbSales = <<>>)) =>
        /\ result.kind = "summary"
        /\ result.period_days = days
        /\ result.total_revenue = 0
        /\ result.total_profit = 0
        /\ result.total_sales = 0
        /\ result.avg_transaction_value = 0
        /\ result.profit_margin = 0
        /\ result.best_day = <<>>
        /\ result.worst_day = <<>>
        /\ result.best_day_revenue = 0
        /\ result.worst_day_revenue = 0
        /\ result.revenue_trend = 0
        /\ result.sales_trends = <<>>
        /\ result.top_products = <<>>
        /\ result.hourly_breakdown = <<>>

\* the sales fetch failed over a store that has sales, and the catalog
\* holds a cost value on which the profit loop would raise
C22_Witness ==
    /\ pc = "done"
    /\ salesFailed
    /\ dbSales # <<>>
    /\ ~productsFailed
    /\ \E p \in DOMAIN products : CostRaises(products[p])
    /\ result.kind = "summary"
    /\ result.hourly_breakdown = <<>>

(***************************************************************************)
(* C23. Each top_products entry's total_profit is the sum over that        *)
(* product's sales of gross_amount - unit_cost * quantity, the same profit *)
(* formula used for total_profit and for the daily buckets; the product's  *)
(* current unit price plays no part in it, so when at most 10 distinct     *)
(* products were sold the top_products profits sum to total_profit (each   *)
(* figure being rounded to the cent on its own).  Stated for batches whose *)
(* products are all in the catalog.                                        *)
(***************************************************************************)
ProductProfit(ss, prods, pid) ==
    SumSeq([i \in 1..Len(ss) |->
        IF ss[i].product_id = pid
        THEN ss[i].total_price - UnitCost(prods, pid) * ss[i].quantity_sold
        ELSE 0])

Profits(top) == [i \in 1..Len(top) |-> top[i].total_profit]

C23_TopProductProfitFromGross ==
    (Returned /\ sales # <<>> /\ AllInCatalog(sales, products)) =>
        LET top == result.top_products
        IN  /\ \A i \in 1..Len(top) :
                top[i].total_profit =
                    Round2(ProductProfit(sales, products, top[i].product_id))
            /\ Cardinality(ProductsSold(sales)) <= 10 =>
                Abs(SumSeq(Profits(top)) - result.total_profit)
                    <= 5 * (Len(top) + 1)

(***************************************************************************)
(* C24. Every sale with a parseable timestamp is counted in the            *)
(* hourly_breakdown bucket of the hour of its UTC-normalized instant: a    *)
(* timezone-aware timestamp is converted to UTC before the hour is taken   *)
(* and a timezone-naive one is taken as UTC, exactly as is done for its    *)
(* daily bucket.  Stated for batches of full ISO timestamps and datetime   *)
(* values, which both loops parse.                                         *)
(***************************************************************************)
UtcInstant(ts) == IF ts.aware THEN ts.wall - ts.off ELSE ts.wall

UtcHour(ts) == UtcInstant(ts) % 24

FullInstants(ss) ==
    \A i \in 1..Len(ss) : ss[i].timestamp.kind \in {"isoT", "datetime"}

SalesInUtcHour(ss, h) == {i \in 1..Len(ss) : UtcHour(ss[i].timestamp) = h}

C24_HourlyBucketIsUtcHour ==
    (Returned /\ sales # <<>> /\ FullInstants(sales)) =>
        /\ Len(result.hourly_breakdown) = 24
        /\ \A h \in 0..23 :
            result.hourly_breakdown[h + 1].sales_count =
                Cardinality(SalesInUtcHour(sales, h))

(***************************************************************************)
(* C25. For a non-empty sales batch and a window of `days` days (start =   *)
(* now - days, end = now), sales_trends has exactly days + 1 entries, its  *)
(* first date is the UTC date of start and its last date is the UTC date   *)
(* of end.                                                                 *)
(***************************************************************************)
UtcDate(instant) == instant \div 24

C25_TrendsSpanDaysPlusOne ==
    (Returned /\ sales # <<>>) =>
        LET trends == result.sales_trends
        IN  /\ Len(trends) = days + 1
            /\ trends[1].date = UtcDate(now - days * 24)
            /\ trends[Len(trends)].date = UtcDate(now)

\* a window of two days: three entries, with a sale on the start date
C25_Witness ==
    /\ Returned
    /\ sales # <<>>
    /\ days = 2
    /\ Len(result.sales_trends) = 3
    /\ result.sales_trends[1].date = UtcDate(now) - 2
    /\ result.sales_trends[1].sales_count > 0
    /\ result.sales_trends[3].date = UtcDate(now)

(***************************************************************************)
(* C26. The AnalyticsSummary does not depend on the order of the records   *)
(* in the sales batch: for every permutation of the same sales (including  *)
(* batches where two days tie for maximum or minimum revenue, or two       *)
(* products tie on revenue at the top-10 boundary), get_analytics returns  *)
(* the same best_day, worst_day, top_products sequence, sales_trends and   *)
(* hourly_breakdown.                                                       *)
(***************************************************************************)
Perms(n) == {f \in [1..n -> 1..n] : \A i, j \in 1..n : f[i] = f[j] => i = j}

Permuted(ss, f) == [i \in 1..Len(ss) |-> ss[f[i]]]

C26_OrderOfSalesIrrelevant ==
    (Returned /\ sales # <<>>) =>
        \A f \in Perms(Len(sales)) :
            LET other == Analyse(Permuted(sales, f), products, now, days)
            IN  /\ other.kind = "summary"
                /\ other.best_day = result.best_day
                /\ other.worst_day = result.worst_day
                /\ other.top_products = result.top_products
                /\ other.sales_trends = result.sales_trends
                /\ other.hourly_breakdown = result.hourly_breakdown

(***************************************************************************)
(* C27. The daily and hourly views agree on which sales are timestamped:   *)
(* for every sales batch whose parseable timestamps all fall inside the    *)
(* window, a sale is counted in some sales_trends bucket if and only if it *)
(* is counted in some hourly_breakdown bucket, so the sum of sales_count   *)
(* over sales_trends equals the sum of sales_count over hourly_breakdown.  *)
(* Parseable is read as widely as can be: accepted by either loop.         *)
(***************************************************************************)
ParseableInWindow(ss) ==
    \A i \in 1..Len(ss) :
        ss[i].timestamp.kind \in
            {"datetime", "isoT", "date", "isoSpace", "text", "dateJunk"}
                => (/\ UtcDate(UtcInstant(ss[i].timestamp)) >= UtcDate(now - days * 24)
                    /\ UtcDate(UtcInstant(ss[i].timestamp)) <= UtcDate(now))

C27_DailyAndHourlyCountTheSameSales ==
    (Returned /\ sales # <<>> /\ ParseableInWindow(sales)) =>
        /\ BucketSum(result.sales_trends) = BucketSum(result.hourly_breakdown)
        /\ \A i \in 1..Len(sales) :
            LET one == Analyse(<<sales[i]>>, products, now, days)
            IN  BucketSum(one.sales_trends) = BucketSum(one.hourly_breakdown)

(***************************************************************************)
(* C29. For a store whose plan has a finite product limit (max_products =  *)
(* 10) and which starts at or below it, after any sequence and any         *)
(* interleaving of create_product requests the store never holds more than *)
(* 10 products: a request that finds the current product count >=          *)
(* max_products is rejected with 402 and inserts nothing.                  *)
(***************************************************************************)
\* the store's plan is not in force: the row is missing, unreadable, or its
\* status is neither active nor trialing
LimitedStore ==
    /\ override \notin {"pro", "business"}
    /\ subscription.kind = "row" => subscription.status \notin {"active", "trialing"}

C29_ProductLimitHolds ==
    LimitedStore => Cardinality(DOMAIN dbProducts) <= 10

(***************************************************************************)
(* C30. process_return is all-or-nothing: whenever process_return answers  *)
(* with an error (product not found, or the insert of the return record    *)
(* fails or returns no data), the product's stock quantity and the sales   *)
(* log are both unchanged; a stock increase by quantity_returned is        *)
(* visible only together with exactly one recorded sale of quantity_sold = *)
(* -quantity_returned and total_price = -(price * quantity_returned).      *)
(* Stated between requests, with the requests handled one at a time: the   *)
(* log holds one record for each request answered 201 and no other, and    *)
(* each product's stock has grown by what the log records as returned.     *)
(***************************************************************************)
Quiet == \A r \in DOMAIN reqs : reqs[r].pc \in {"idle", "done"}

Accepted == {r \in DOMAIN reqs : reqs[r].response = Http(201)}

ReturnedInLog(pid) ==
    SumSeq([i \in 1..Len(dbSales) |->
        IF dbSales[i].product_id = pid THEN 0 - dbSales[i].quantity_sold ELSE 0])

C30_ReturnAllOrNothing ==
    (Quiet /\ DOMAIN stock # {}) =>
        /\ Len(dbSales) = Cardinality(Accepted)
        /\ \A i \in 1..Len(dbSales) :
            /\ dbSales[i].quantity_sold < 0
            /\ dbSales[i].total_price =
                    dbProducts[dbSales[i].product_id].price * dbSales[i].quantity_sold
        /\ \A pid \in DOMAIN stock :
            stock[pid] = InitialStock[pid] + ReturnedInLog(pid)

====
